---- MODULE Spec2Model ----
(***************************************************************************)
(* Model of folder2podcast's feed and artwork resolution engine:           *)
(*   - the cover resolver (resolveCoverForSource and its helpers),         *)
(*   - the freshness test of a cached cover (isFresh),                     *)
(*   - the feed assembler (generateFeed, buildEpisodeShownotes,            *)
(*     findSidecarAttachments, getFileSize).                               *)
(* Strings are sequences of one-character strings so that trimming, case   *)
(* folding, suffix tests and percent-encoding are computed, not assumed.   *)
(***************************************************************************)
EXTENDS Integers, Sequences, FiniteSets, TLC

VARIABLES
    now,        \* Date.now(), in milliseconds
    files,      \* the cover cache directory: ext -> [exists, mtime]
    dirName,    \* source.dirName of the podcast folder under resolution
    pc,         \* per call of resolveCoverForSource: the await it is at
    loc,        \* per call: its parameters and local variables
    result,     \* per call: the value the promise resolved to
    hist,       \* per call: the I/O the call has issued so far (statLost: the
                \* files a failing stat kept from being a cache hit)
    fq,         \* the freshness query under test: isFresh's inputs and answer
    fb,         \* the size under test: formatBytes's input and answer
    genIn,      \* generateFeed: its arguments and the environment it reads
    genPc,      \* generateFeed: the await it is at
    genIdx,     \* generateFeed: the position of the episode being processed
    genSize,    \* generateFeed: fileSize of the episode being processed
    feed,       \* generateFeed: the Feed object built so far
    genLog      \* generateFeed: the lookups made, in order, with the files that failed

coverVars == <<now, files, dirName, pc, loc, result, hist>>
freshVars == <<fq>>
bytesVars == <<fb>>
genVars == <<genIn, genPc, genIdx, genSize, feed, genLog>>
vars == <<now, files, dirName, pc, loc, result, hist, fq, fb,
          genIn, genPc, genIdx, genSize, feed, genLog>>

----------------------------------------------------------------------------
(* Bounds *)

MaxDays == 1        \* the clock runs over 0 .. MaxDays days
MaxTtlDays == 1     \* REMOTE_COVER_TTL_DAYS ranges over 0 .. MaxTtlDays

----------------------------------------------------------------------------
(* Strings *)

IsSpace(c) == c = " "

RECURSIVE TrimStart(_)
TrimStart(s) ==
    IF s = <<>> THEN <<>>
    ELSE IF IsSpace(Head(s)) THEN TrimStart(Tail(s)) ELSE s

RECURSIVE TrimEnd(_)
TrimEnd(s) ==
    IF s = <<>> THEN <<>>
    ELSE IF IsSpace(s[Len(s)]) THEN TrimEnd(SubSeq(s, 1, Len(s) - 1)) ELSE s

\* String.prototype.trim
Trim(s) == TrimEnd(TrimStart(s))

LowerChar(c) ==
    CASE c = "P" -> "p" [] c = "N" -> "n" [] c = "G" -> "g"
      [] c = "J" -> "j" [] c = "E" -> "e" [] c = "W" -> "w"
      [] c = "B" -> "b" [] c = "U" -> "u"
      [] OTHER -> c

\* String.prototype.toLowerCase
ToLower(s) == [i \in 1..Len(s) |-> LowerChar(s[i])]

RECURSIVE BeforeQuery(_)
\* s.split('?')[0]
BeforeQuery(s) ==
    IF s = <<>> THEN <<>>
    ELSE IF Head(s) = "?" THEN <<>>
    ELSE <<Head(s)>> \o BeforeQuery(Tail(s))

\* String.prototype.endsWith
EndsWith(s, suf) ==
    /\ Len(suf) <= Len(s)
    /\ SubSeq(s, Len(s) - Len(suf) + 1, Len(s)) = suf

\* String.prototype.startsWith
StartsWith(s, pre) ==
    /\ Len(pre) <= Len(s)
    /\ SubSeq(s, 1, Len(pre)) = pre

EncodeChar(c) ==
    CASE c = " " -> <<"%", "2", "0">>
      [] c = "/" -> <<"%", "2", "F">>
      [] c = "?" -> <<"%", "3", "F">>
      [] c = "&" -> <<"%", "2", "6">>
      [] c = "%" -> <<"%", "2", "5">>
      [] OTHER -> <<c>>

RECURSIVE encodeURIComponent(_)
encodeURIComponent(s) ==
    IF s = <<>> THEN <<>>
    ELSE EncodeChar(Head(s)) \o encodeURIComponent(Tail(s))

ExtJpg == <<".", "j", "p", "g">>
ExtPng == <<".", "p", "n", "g">>
ExtWebp == <<".", "w", "e", "b", "p">>
ExtJpeg == <<".", "j", "p", "e", "g">>

\* the order of the cache probe and of the cleanup
CoverExts == <<ExtJpg, ExtPng, ExtWebp>>

ExtSet == {CoverExts[i] : i \in 1..Len(CoverExts)}

----------------------------------------------------------------------------
(* Cover resolver: pure helpers *)

\* path.join(process.cwd(), '.covers') followed by the separator
coversDir == <<".", "c", "o", "v", "e", "r", "s", "/">>

guessExtFromUrl(url) ==
    LET lower == BeforeQuery(ToLower(url)) IN
    IF EndsWith(lower, ExtPng) THEN ExtPng
    ELSE IF EndsWith(lower, ExtWebp) THEN ExtWebp
    ELSE IF EndsWith(lower, ExtJpeg) THEN ExtJpg
    ELSE IF EndsWith(lower, ExtJpg) THEN ExtJpg
    ELSE ExtJpg

DayMs == 24 * 60 * 60 * 1000

\* FreshAge with the bound itself counted as fresh
FreshAgeInclusive(ageMs, ttlDays) == ageMs >= 0 /\ ageMs <= ttlDays * DayMs

\* the value isFresh computes once stat has returned mtimeMs
FreshAge(ageMs, ttlDays) == ageMs >= 0 /\ ageMs < ttlDays * DayMs

\* isFresh: a failing stat is caught and answers false
isFresh(statOk, mtimeMs, nowMs, ttlDays) ==
    IF statOk THEN FreshAge(nowMs - mtimeMs, ttlDays) ELSE FALSE

\* toCoverRoute without the percent-encoding
toCoverRouteRaw(fileName) ==
    <<"/", "c", "o", "v", "e", "r", "s", "/">> \o fileName

toCoverRoute(fileName) ==
    <<"/", "c", "o", "v", "e", "r", "s", "/">> \o encodeURIComponent(fileName)

----------------------------------------------------------------------------
(* Cover resolver: inputs *)

Instants ==
    {0} \cup {k * DayMs - 1 : k \in 1..MaxDays} \cup {k * DayMs : k \in 1..MaxDays}

UrlPng == <<" ", "u", ".", "P", "N", "G", "?", ".", "j", "p", "g", " ">>
UrlWebp == <<"u", ".", "w", "e", "b", "p">>
UrlJpeg == <<"u", ".", "j", "p", "e", "g">>
UrlPlain == <<"u">>
Blank == <<" ">>
TermText == <<"t", " ">>
TitleText == <<"n">>

\* the folder name: one that percent-encoding changes
DirNames == {<<"a", " ", "b">>}

\* source.config of the PodcastSource handed to the resolver: explicit cover
\* URLs with and without a search term, and no usable cover URL with every
\* pattern of empty, blank and non-blank search term and title
Config(url, term, title) ==
    [coverImageUrl |-> url, coverSearchTerm |-> term, title |-> title]

Sources ==
    {Config(UrlPng, TermText, TitleText), Config(UrlWebp, <<>>, TitleText),
     Config(UrlPlain, Blank, <<>>), Config(Blank, TermText, TitleText),
     Config(<<>>, TermText, TitleText), Config(<<>>, Blank, TitleText),
     Config(<<>>, <<>>, TitleText), Config(<<>>, <<>>, Blank),
     Config(<<>>, <<>>, <<>>), Config(<<>>, Blank, <<>>)}

\* the part of getEnvConfig() the resolver reads
Envs ==
    [REMOTE_COVER_ENABLED : BOOLEAN,
     REMOTE_COVER_PROVIDER : {"none", "itunes"},
     REMOTE_COVER_TTL_DAYS : 0..MaxTtlDays]

NoArt == [artworkUrl600 |-> <<>>, artworkUrl512 |-> <<>>, artworkUrl100 |-> <<>>]

\* what the search request can come back with: the transport outcome, res.ok,
\* whether the body parses, whether j.results is an array, and the array
SearchResponses ==
    {[net |-> n, ok |-> TRUE, json |-> "array", results |-> <<>>] :
        n \in {"error", "abort"}}
    \cup
    {[net |-> "ok", ok |-> FALSE, json |-> "array", results |-> <<>>]}
    \cup
    {[net |-> "ok", ok |-> TRUE, json |-> j, results |-> <<>>] :
        j \in {"malformed", "notArray", "array"}}
    \cup
    {[net |-> "ok", ok |-> TRUE, json |-> "array", results |-> <<a>>] :
        a \in {NoArt,
               [NoArt EXCEPT !.artworkUrl600 = UrlWebp, !.artworkUrl100 = UrlPlain],
               [NoArt EXCEPT !.artworkUrl512 = UrlJpeg],
               [NoArt EXCEPT !.artworkUrl100 = UrlPng]}}

\* what the download request can come back with; body is res.arrayBuffer()
DownloadResponses ==
    {[net |-> n, ok |-> TRUE, body |-> TRUE] : n \in {"error", "abort"}}
    \cup
    {[net |-> "ok", ok |-> FALSE, body |-> TRUE],
     [net |-> "ok", ok |-> TRUE, body |-> FALSE],
     [net |-> "ok", ok |-> TRUE, body |-> TRUE]}

\* ensureDir + writeFile: done, refused before the file is touched, or failed
\* after the file was created
WriteOutcomes == {"ok", "mkdirFail", "writeFail", "writePartial"}

Procs == {1, 2}
SeqProcs == {1}

Empty == [has |-> FALSE, coverUrl |-> <<>>, coverCachePath |-> <<>>]

NoFile == [exists |-> FALSE, mtime |-> 0]

NoHist ==
    [probes |-> <<>>, stats |-> <<>>, statLost |-> <<>>, searches |-> <<>>,
     downloads |-> <<>>,
     writes |-> <<>>, removes |-> <<>>, failure |-> "none",
     files0 |-> [e \in ExtSet |-> NoFile]]

NoLoc ==
    [env |-> [REMOTE_COVER_ENABLED |-> FALSE, REMOTE_COVER_PROVIDER |-> "none",
              REMOTE_COVER_TTL_DAYS |-> 0],
     config |-> [coverImageUrl |-> <<>>, coverSearchTerm |-> <<>>, title |-> <<>>],
     extIdx |-> 0, term |-> <<>>, artworkUrl |-> <<>>, ext |-> <<>>]

----------------------------------------------------------------------------
(* Cover resolver: resolveCoverForSource, one action per await *)

\* a || b on strings: the first operand unless it is the empty string
OrElse(a, b) == IF a # <<>> THEN a ELSE b

\* itunesSearchArtwork: every failure of the request answers null (<<>>)
itunesSearchArtwork(resp) ==
    IF resp.net # "ok" THEN <<>>
    ELSE IF ~resp.ok THEN <<>>
    ELSE IF resp.json = "malformed" THEN <<>>
    ELSE LET r == IF resp.json = "array" THEN resp.results ELSE <<>> IN
         IF Len(r) = 0 THEN <<>>
         ELSE OrElse(r[1].artworkUrl600, OrElse(r[1].artworkUrl512, r[1].artworkUrl100))

\* the cache file of extension ext
CachePath(ext) == coversDir \o dirName \o ext

\* the return value of a cache hit or of a completed download
Resolved(ext) ==
    [has |-> TRUE, coverUrl |-> toCoverRoute(dirName \o ext),
     coverCachePath |-> CachePath(ext)]

\* the search term of line 111, before the test of line 112
SearchTerm(config) ==
    Trim(OrElse(config.coverSearchTerm, OrElse(config.title, dirName)))

\* the short-circuit without its provider test
DisabledFlagOnly(env) == ~env.REMOTE_COVER_ENABLED

\* the short-circuit of line 89
Disabled(env) == ~env.REMOTE_COVER_ENABLED \/ env.REMOTE_COVER_PROVIDER = "none"

\* no catch around download and cleanup: the rejection reaches the caller
DownloadRethrow == [pc |-> "raised", result |-> Empty]

\* the catch of lines 126-128 around download and cleanup
DownloadCatch == [pc |-> "done", result |-> Empty]

\* a cleanup that stops after the first other extension
OtherExtsFirstOnly(keepExt) ==
    SubSeq(SelectSeq(CoverExts, LAMBDA e : e # keepExt), 1, 1)

\* the extensions cleanupOldVariants visits, in order
OtherExts(keepExt) == SelectSeq(CoverExts, LAMBDA e : e # keepExt)

Call(p, env, config) ==
    /\ pc[p] = "idle"
    /\ hist' = [hist EXCEPT ![p] = [NoHist EXCEPT !.files0 = files]]
    /\ IF Disabled(env)
       THEN /\ pc' = [pc EXCEPT ![p] = "done"]
            /\ result' = [result EXCEPT ![p] = Empty]
            /\ loc' = [loc EXCEPT ![p] = [NoLoc EXCEPT !.env = env, !.config = config]]
       ELSE /\ pc' = [pc EXCEPT ![p] = "probe"]
            /\ result' = [result EXCEPT ![p] = Empty]
            /\ loc' = [loc EXCEPT ![p] =
                         [NoLoc EXCEPT !.env = env, !.config = config, !.extIdx = 1]]
    /\ UNCHANGED <<now, files, dirName, fq, fb, genVars>>

\* the artwork source with the search tried before the explicit URL
ArtworkSourceSearchFirst(config) ==
    LET directUrl == Trim(config.coverImageUrl)
        term == SearchTerm(config)
    IN  IF term # <<>> THEN [kind |-> "search", url |-> <<>>, term |-> term]
        ELSE IF directUrl # <<>> THEN [kind |-> "direct", url |-> directUrl, term |-> <<>>]
        ELSE [kind |-> "none", url |-> <<>>, term |-> <<>>]

\* lines 105-115: where the artwork comes from, an explicit URL first
ArtworkSource(config) ==
    LET directUrl == Trim(config.coverImageUrl)
        term == SearchTerm(config)
    IN  IF directUrl # <<>> THEN [kind |-> "direct", url |-> directUrl, term |-> <<>>]
        ELSE IF term # <<>> THEN [kind |-> "search", url |-> <<>>, term |-> term]
        ELSE [kind |-> "none", url |-> <<>>, term |-> <<>>]

\* lines 105-120, reached when no extension gave a fresh hit
AfterCacheMiss(p) ==
    LET src == ArtworkSource(loc[p].config) IN
    IF src.kind = "direct"
    THEN /\ pc' = [pc EXCEPT ![p] = "fetch"]
         /\ loc' = [loc EXCEPT ![p].artworkUrl = src.url,
                               ![p].ext = guessExtFromUrl(src.url)]
         /\ UNCHANGED result
    ELSE IF src.kind = "search"
    THEN /\ pc' = [pc EXCEPT ![p] = "search"]
         /\ loc' = [loc EXCEPT ![p].term = src.term]
         /\ UNCHANGED result
    ELSE /\ pc' = [pc EXCEPT ![p] = "done"]
         /\ result' = [result EXCEPT ![p] = Empty]
         /\ UNCHANGED loc

\* lines 98-103: one iteration of the cache lookup
Probe(p) ==
    /\ pc[p] = "probe"
    /\ LET ext == CoverExts[loc[p].extIdx]
           f == files[ext]
       IN  \E statOk \in BOOLEAN :
             /\ (~f.exists => statOk)
             /\ hist' = [hist EXCEPT ![p].probes = Append(@, ext),
                                     ![p].stats = IF f.exists THEN Append(@, ext) ELSE @,
                                     ![p].statLost =
                                        IF /\ f.exists /\ ~statOk
                                           /\ isFresh(TRUE, f.mtime, now,
                                                      loc[p].env.REMOTE_COVER_TTL_DAYS)
                                        THEN Append(@, ext) ELSE @]
             /\ IF f.exists /\ isFresh(statOk, f.mtime, now, loc[p].env.REMOTE_COVER_TTL_DAYS)
                THEN /\ pc' = [pc EXCEPT ![p] = "done"]
                     /\ result' = [result EXCEPT ![p] = Resolved(ext)]
                     /\ UNCHANGED loc
                ELSE IF loc[p].extIdx < Len(CoverExts)
                THEN /\ loc' = [loc EXCEPT ![p].extIdx = @ + 1]
                     /\ UNCHANGED <<pc, result>>
                ELSE AfterCacheMiss(p)
    /\ UNCHANGED <<now, files, dirName, fq, fb, genVars>>

\* the request failed: transport error or abort, status outside 2xx, a body
\* that is not JSON, or results that is no array
SearchFailed(resp) == resp.net # "ok" \/ ~resp.ok \/ resp.json # "array"

DownloadFailed(resp) == resp.net # "ok" \/ ~resp.ok \/ ~resp.body

\* line 113: the search request
Search(p) ==
    /\ pc[p] = "search"
    /\ \E resp \in SearchResponses :
         LET url == itunesSearchArtwork(resp) IN
         /\ hist' = [hist EXCEPT ![p].searches = Append(@, loc[p].term),
                                 ![p].failure = IF SearchFailed(resp) THEN "search" ELSE @]
         /\ IF url = <<>>
            THEN /\ pc' = [pc EXCEPT ![p] = "done"]
                 /\ result' = [result EXCEPT ![p] = Empty]
                 /\ UNCHANGED loc
            ELSE /\ pc' = [pc EXCEPT ![p] = "fetch"]
                 /\ loc' = [loc EXCEPT ![p].artworkUrl = url,
                                       ![p].ext = guessExtFromUrl(url)]
                 /\ UNCHANGED result
    /\ UNCHANGED <<now, files, dirName, fq, fb, genVars>>

\* downloadToFile, lines 44-48: the request and its body
Fetch(p) ==
    /\ pc[p] = "fetch"
    /\ \E resp \in DownloadResponses :
         /\ hist' = [hist EXCEPT ![p].downloads = Append(@, loc[p].artworkUrl),
                                 ![p].failure = IF DownloadFailed(resp) THEN "fetch" ELSE @]
         /\ IF ~DownloadFailed(resp)
            THEN /\ pc' = [pc EXCEPT ![p] = "write"]
                 /\ UNCHANGED result
            ELSE /\ pc' = [pc EXCEPT ![p] = DownloadCatch.pc]
                 /\ result' = [result EXCEPT ![p] = DownloadCatch.result]
    /\ UNCHANGED <<now, files, dirName, loc, fq, fb, genVars>>

\* downloadToFile, lines 49-50: ensureDir and writeFile
Write(p) ==
    /\ pc[p] = "write"
    /\ \E outcome \in WriteOutcomes :
         /\ files' = IF outcome \in {"ok", "writePartial"}
                     THEN [files EXCEPT ![loc[p].ext] = [exists |-> TRUE, mtime |-> now]]
                     ELSE files
         /\ hist' = [hist EXCEPT
                        ![p].writes = IF outcome \in {"ok", "writePartial"}
                                      THEN Append(@, loc[p].ext) ELSE @,
                        ![p].failure = IF outcome # "ok" THEN "write" ELSE @]
         /\ IF outcome = "ok"
            THEN /\ pc' = [pc EXCEPT ![p] = "cleanup"]
                 /\ loc' = [loc EXCEPT ![p].extIdx = 1]
                 /\ UNCHANGED result
            ELSE /\ pc' = [pc EXCEPT ![p] = DownloadCatch.pc]
                 /\ result' = [result EXCEPT ![p] = DownloadCatch.result]
                 /\ UNCHANGED loc
    /\ UNCHANGED <<now, dirName, fq, fb, genVars>>

\* cleanupOldVariants, lines 31-37: one iteration that is not the kept extension,
\* then line 125 after the last one
Cleanup(p) ==
    /\ pc[p] = "cleanup"
    /\ LET others == OtherExts(loc[p].ext)
           e == others[loc[p].extIdx]
       IN  \E removeOk \in BOOLEAN :
             /\ (~files[e].exists => removeOk)
             /\ files' = IF files[e].exists /\ removeOk
                         THEN [files EXCEPT ![e] = NoFile] ELSE files
             /\ hist' = [hist EXCEPT
                            ![p].removes = IF files[e].exists /\ removeOk
                                           THEN Append(@, e) ELSE @,
                            ![p].failure = IF ~removeOk THEN "remove" ELSE @]
             /\ IF ~removeOk
                THEN /\ pc' = [pc EXCEPT ![p] = DownloadCatch.pc]
                     /\ result' = [result EXCEPT ![p] = DownloadCatch.result]
                     /\ UNCHANGED loc
                ELSE IF loc[p].extIdx < Len(others)
                THEN /\ loc' = [loc EXCEPT ![p].extIdx = @ + 1]
                     /\ UNCHANGED <<pc, result>>
                ELSE /\ pc' = [pc EXCEPT ![p] = "done"]
                     /\ result' = [result EXCEPT ![p] = Resolved(loc[p].ext)]
                     /\ UNCHANGED loc
    /\ UNCHANGED <<now, dirName, fq, fb, genVars>>

\* the caller takes the resolved value
Return(p) ==
    /\ pc[p] = "done"
    /\ pc' = [pc EXCEPT ![p] = "idle"]
    /\ loc' = [loc EXCEPT ![p] = NoLoc]
    /\ result' = [result EXCEPT ![p] = Empty]
    /\ hist' = [hist EXCEPT ![p] = NoHist]
    /\ UNCHANGED <<now, files, dirName, fq, fb, genVars>>

\* the clock
Tick ==
    /\ \E t \in Instants : t > now /\ now' = t
    /\ UNCHANGED <<files, dirName, pc, loc, result, hist, fq, fb, genVars>>

----------------------------------------------------------------------------
(* Feed assembler: pure helpers *)

EscapeChar(c) ==
    CASE c = "&" -> <<"&", "a", "m", "p", ";">>
      [] c = "<" -> <<"&", "l", "t", ";">>
      [] c = ">" -> <<"&", "g", "t", ";">>
      [] c = "\"" -> <<"&", "q", "u", "o", "t", ";">>
      [] c = "'" -> <<"&", "#", "3", "9", ";">>
      [] OTHER -> <<c>>

RECURSIVE escapeHtml(_)
escapeHtml(s) ==
    IF s = <<>> THEN <<>> ELSE EscapeChar(Head(s)) \o escapeHtml(Tail(s))

\* the positions of s holding character c
Positions(s, c) == {i \in 1..Len(s) : s[i] = c}

Max(S) == CHOOSE x \in S : \A y \in S : y <= x
Min(S) == CHOOSE x \in S : \A y \in S : x <= y

\* audioFileName.replace(/\.[^/.]+$/, ''): drop a last ".ext" that is not empty
\* and holds no slash
StripExt(s) ==
    LET dots == Positions(s, ".") IN
    IF dots = {} THEN s
    ELSE LET d == Max(dots) IN
         IF d < Len(s) /\ \A i \in (d + 1)..Len(s) : s[i] # "/"
         THEN SubSeq(s, 1, d - 1) ELSE s

\* path.extname(fileName).toLowerCase(): from the last dot, unless the name has
\* none or starts with its only dot
ExtName(s) ==
    LET dots == Positions(s, ".") IN
    IF dots = {} \/ Max(dots) = 1 THEN <<>>
    ELSE ToLower(SubSeq(s, Max(dots), Len(s)))

\* path.basename of a path without trailing separators
Basename(s) ==
    LET slashes == Positions(s, "/") IN
    IF slashes = {} THEN s ELSE SubSeq(s, Max(slashes) + 1, Len(s))

\* s.replace(c, by): the first occurrence only
ReplaceFirst(s, c, by) ==
    LET at == Positions(s, c) IN
    IF at = {} THEN s
    ELSE SubSeq(s, 1, Min(at) - 1) \o by \o SubSeq(s, Min(at) + 1, Len(s))

\* formatDate: toISOString throws on an invalid date and String(date) is used
formatDate(date) ==
    IF date.valid
    THEN ReplaceFirst(ReplaceFirst(date.iso, "T", <<" ">>), "Z", <<" ", "U", "T", "C">>)
    ELSE <<"I", "n", "v", "a", "l", "i", "d", " ", "D", "a", "t", "e">>

RECURSIVE Pow(_, _)
Pow(b, e) == IF e = 0 THEN 1 ELSE b * Pow(b, e - 1)

Units == <<"B", "KB", "MB", "GB", "TB">>

RECURSIVE Digits1024(_)
\* a non-negative integer as its base-1024 digits, lowest first
Digits1024(n) == IF n = 0 THEN <<>> ELSE <<n % 1024>> \o Digits1024(n \div 1024)

\* a JavaScript number that is an integer, by sign and base-1024 digits, so
\* that sizes of a terabyte and more can be written down
Num(n) ==
    [cls |-> "finite", neg |-> n < 0, digits |-> Digits1024(IF n < 0 THEN -n ELSE n)]

RECURSIVE ValueOf(_)
ValueOf(ds) == IF ds = <<>> THEN 0 ELSE Head(ds) + 1024 * ValueOf(Tail(ds))

RECURSIVE UnitIndex(_, _)
\* the loop of formatBytes: i counts the divisions by 1024 (bytes / 1024^i is
\* exact in binary floating point, so n >= 1024 iff more than one digit is left
\* above position i)
UnitIndex(ds, i) ==
    IF Len(ds) - i > 1 /\ i < Len(Units) - 1
    THEN UnitIndex(ds, i + 1) ELSE i

RECURSIVE Carry(_, _, _)
\* the integer part of c * (the fraction made of the k lowest digits)
Carry(ds, c, k) ==
    IF k = 0 THEN 0 ELSE (c * ds[k] + Carry(ds, c, k - 1)) \div 1024

\* the precision with the two scaled cases exchanged
FixedSwapped(i, whole) == IF i = 0 THEN 0 ELSE IF whole >= 10 THEN 2 ELSE 1

\* line 90: the precision, whole being the integer part of n
Fixed(i, whole) == IF i = 0 THEN 0 ELSE IF whole >= 10 THEN 1 ELSE 2

\* formatBytes: the text is digits / 10^fixed followed by the unit; toFixed
\* rounds the exact quotient half up
formatBytes(bytes) ==
    IF bytes.cls # "finite" \/ bytes.neg \/ bytes.digits = <<>>
    THEN [digits |-> 0, fixed |-> 0, unit |-> "B"]
    ELSE LET i == UnitIndex(bytes.digits, 0)
             whole == ValueOf(SubSeq(bytes.digits, i + 1, Len(bytes.digits)))
             fixed == Fixed(i, whole)
             c == 2 * Pow(10, fixed)
         IN  [digits |-> (c * whole + Carry(bytes.digits, c, i) + 1) \div 2,
              fixed |-> fixed, unit |-> Units[i + 1]]

getMediaType(fileName) ==
    LET ext == ExtName(fileName) IN
    IF ext = <<".", "m", "p", "3">> THEN "audio/mpeg"
    ELSE IF ext = <<".", "m", "4", "a">> THEN "audio/x-m4a"
    ELSE IF ext = <<".", "w", "a", "v">> THEN "audio/wav"
    ELSE "audio/mpeg"

\* the candidate list of findSidecarAttachments, in probe order
SidecarExts ==
    << <<"p", "d", "f">>, <<"d", "o", "c">>, <<"d", "o", "c", "x">>,
       <<"e", "p", "u", "b">>, <<"m", "o", "b", "i">>, <<"a", "z", "w", "3">>,
       <<"t", "x", "t">>, <<"m", "d">>, <<"j", "p", "g">>, <<"j", "p", "e", "g">>,
       <<"p", "n", "g">>, <<"w", "e", "b", "p">> >>

KindOf(ext) ==
    IF ext \in {<<"j", "p", "g">>, <<"j", "p", "e", "g">>, <<"p", "n", "g">>,
                <<"w", "e", "b", "p">>} THEN "image"
    ELSE IF ext \in {<<"m", "d">>, <<"t", "x", "t">>} THEN "text"
    ELSE IF ext = <<"p", "d", "f">> THEN "pdf"
    ELSE IF ext \in {<<"d", "o", "c">>, <<"d", "o", "c", "x">>} THEN "doc"
    ELSE "other"

AudioPrefix == <<"/", "a", "u", "d", "i", "o", "/">>

\* `${baseUrl}/audio/${encodeURIComponent(dirName)}/${encodeURIComponent(name)}`
AudioUrl(baseUrl, dir, name) ==
    baseUrl \o AudioPrefix \o encodeURIComponent(dir) \o <<"/">> \o encodeURIComponent(name)

Take(s, n) == SubSeq(s, 1, IF n < Len(s) THEN n ELSE Len(s))

\* what an async helper settles to: a value, or a rejection
Returns(v) == [threw |-> FALSE, value |-> v]
Throws(v) == [threw |-> TRUE, value |-> v]

\* readTextTruncated: any failure of stat, open, read or close is caught and
\* answers ''
readTextTruncated(readOk, file, maxChars) ==
    IF ~readOk THEN Returns(<<>>)
    ELSE LET maxBytes == IF maxChars * 4 > 1024 THEN maxChars * 4 ELSE 1024
             s == Take(file.text, IF maxBytes < file.size THEN maxBytes ELSE file.size)
         IN  Returns(IF Len(s) > maxChars THEN Take(s, maxChars) ELSE s)

----------------------------------------------------------------------------
(* Feed assembler: inputs *)

MaxEpisodes == 2    \* a source holds 0 .. MaxEpisodes episodes

Dot(stem, ext) == stem \o <<".">> \o ext

DiskFile(name, size, text) == [name |-> name, size |-> size, text |-> text]

\* the files of source.dirPath: audio files and the sidecars beside them
Disk ==
    {DiskFile(<<"e", "1", ".", "m", "p", "3">>, 1536, <<>>),
     DiskFile(<<"e", "1", ".", "m", "d">>, 5, <<" ", "<", "b", ">", " ">>),
     DiskFile(<<"e", "1", ".", "p", "n", "g">>, 700, <<>>),
     DiskFile(<<"e", "2", ".", "m", "4", "a">>, 10240, <<>>),
     DiskFile(<<"e", "2", ".", "p", "d", "f">>, 900, <<>>),
     DiskFile(<<"e", "3", ".", "w", "a", "v">>, 1048576, <<>>),
     DiskFile(<<"e", "4", ".", "f", "l", "a", "c">>, 512, <<>>),
     DiskFile(<<"e", "4", ".", "t", "x", "t">>, 2, <<" ", " ">>),
     DiskFile(<<"e", "4", ".", "d", "o", "c", "x">>, 33, <<>>),
     DiskFile(<<"e", "4", ".", "e", "p", "u", "b">>, 44, <<>>),
     DiskFile(<<"e", "5", ".", "M", "P", "3">>, 0, <<>>),
     DiskFile(<<"e", "5", ".", "j", "p", "g">>, 55, <<>>),
     DiskFile(<<"e", "5", ".", "w", "e", "b", "p">>, 66, <<>>)}

pathExists(name) == \E f \in Disk : f.name = name

FileOf(name) == CHOOSE f \in Disk : f.name = name

Date(valid, iso) == [valid |-> valid, iso |-> iso]

Episode(title, fileName, pubDate) ==
    [title |-> title, fileName |-> fileName, pubDate |-> pubDate]

IsoDate == <<"1", "T", "2", "Z">>

Episodes ==
    {Episode(<<"A", "&", "B">>, <<"e", "1", ".", "m", "p", "3">>, Date(TRUE, IsoDate)),
     Episode(<<"C">>, <<"e", "2", ".", "m", "4", "a">>, Date(TRUE, IsoDate)),
     Episode(<<"D">>, <<"e", "3", ".", "w", "a", "v">>, Date(FALSE, <<>>)),
     Episode(<<"E">>, <<"e", "4", ".", "f", "l", "a", "c">>, Date(TRUE, IsoDate)),
     Episode(<<"F">>, <<"e", "5", ".", "M", "P", "3">>, Date(TRUE, IsoDate))}

EpisodeLists == UNION {[1..n -> Episodes] : n \in 0..MaxEpisodes}

BaseUrl == <<"h", "t", "t", "p", ":", "/", "/", "s">>
DefaultCover == <<"h", "t", "t", "p", ":", "/", "/", "s", "/", "d">>
FeedDirName == <<"a", " ", "b">>
FeedDirPath == <<"/", "r", "/", "a", " ", "b">>

\* source.coverUrl: unset, a cover route, absolute with either scheme, and a
\* value that merely starts like a scheme
CoverUrls ==
    {<<>>,
     <<"/", "c", "o", "v", "e", "r", "s", "/", "x">>,
     <<"h", "t", "t", "p", ":", "/", "/", "r">>,
     <<"h", "t", "t", "p", "s", ":", "/", "/", "r">>,
     <<"h", "t", "t", "p", "s", "/", "r">>}

\* source.coverPath: unset, or the cover.jpg the directory scanner found
CoverPaths == {<<>>, FeedDirPath \o <<"/", "c", "o", "v", "e", "r", ".", "j", "p", "g">>}

GenEnvs ==
    [EPISODE_SHOWNOTES : {"title", "full"},
     EPISODE_INLINE_ATTACHMENTS : {"none", "images", "all"},
     EPISODE_INLINE_TEXT_MAX_CHARS : {0, 3}]

\* every cover input with at most one episode, and every episode list with one
\* cover input
GenInputs ==
    [env : GenEnvs, coverUrl : CoverUrls, coverPath : CoverPaths,
     episodes : {l \in EpisodeLists : Len(l) <= 1}]
    \cup
    [env : GenEnvs, coverUrl : {<<>>}, coverPath : {<<>>}, episodes : EpisodeLists]

----------------------------------------------------------------------------
(* Feed assembler: getFileSize, findSidecarAttachments, buildEpisodeShownotes *)

\* getFileSize without its catch
getFileSizeNoCatch(statOk, fileName) ==
    IF statOk /\ pathExists(fileName) THEN Returns(FileOf(fileName).size) ELSE Throws(0)

\* getFileSize: a failing stat is caught and answers 0
getFileSize(statOk, fileName) ==
    IF statOk /\ pathExists(fileName) THEN Returns(FileOf(fileName).size) ELSE Returns(0)

\* the sidecar candidates of an audio file that exist, in probe order
Candidates(audioFileName) ==
    LET stem == StripExt(audioFileName) IN
    SelectSeq(SidecarExts, LAMBDA ext : pathExists(Dot(stem, ext)))

\* the text-kind candidates: the files readTextTruncated is called on
TextCandidates(audioFileName) ==
    {Dot(StripExt(audioFileName), ext) :
        ext \in {e \in {SidecarExts[i] : i \in 1..Len(SidecarExts)} :
                    KindOf(e) = "text" /\ pathExists(Dot(StripExt(audioFileName), e))}}

\* lines 147-155: the item pushed for a candidate that exists
Attachment(candidate, ext, baseUrl, dir, readOk, maxTextChars) ==
    [fileName |-> candidate,
     url |-> AudioUrl(baseUrl, dir, candidate),
     kind |-> KindOf(ext),
     inlineText |-> IF KindOf(ext) = "text"
                    THEN readTextTruncated(readOk[candidate], FileOf(candidate),
                                           maxTextChars).value
                    ELSE <<>>]

\* findSidecarAttachments; readOk tells for each text sidecar whether reading
\* it succeeds
findSidecarAttachments(audioFileName, baseUrl, dir, readOk, maxTextChars) ==
    LET stem == StripExt(audioFileName)
        found == Candidates(audioFileName)
    IN  [i \in 1..Len(found) |->
            Attachment(Dot(stem, found[i]), found[i], baseUrl, dir, readOk, maxTextChars)]

Part(tag, a, b) == [tag |-> tag, a |-> a, b |-> b]

Line(key, value) == [key |-> key, value |-> value]

\* lines 242-249: the Images section
ImagesSection(attachments, inlineAttachments) ==
    LET images == SelectSeq(attachments, LAMBDA a : a.kind = "image") IN
    IF Len(images) > 0 /\ inlineAttachments \in {"images", "all"}
    THEN <<Part("h:Images", <<>>, <<>>)>>
         \o [i \in 1..Len(images) |->
                Part("img", escapeHtml(images[i].url), escapeHtml(images[i].fileName))]
    ELSE <<>>

RECURSIVE Flatten(_)
Flatten(ss) == IF ss = <<>> THEN <<>> ELSE Head(ss) \o Flatten(Tail(ss))

\* lines 253-261: the parts of one text attachment
NoteParts(t) ==
    LET body == Trim(t.inlineText) IN
    IF body = <<>>
    THEN <<Part("a", escapeHtml(t.url), escapeHtml(t.fileName))>>
    ELSE <<Part("a", escapeHtml(t.url), escapeHtml(t.fileName)),
           Part("pre", escapeHtml(body), <<>>)>>

\* a Notes section that the 'images' setting emits too
NotesSectionLoose(attachments, inlineAttachments) ==
    LET texts == SelectSeq(attachments, LAMBDA a : a.kind = "text") IN
    IF Len(texts) > 0 /\ inlineAttachments \in {"images", "all"}
    THEN <<Part("h:Notes", <<>>, <<>>)>>
         \o Flatten([i \in 1..Len(texts) |-> NoteParts(texts[i])])
    ELSE <<>>

\* lines 251-262: the Notes section
NotesSection(attachments, inlineAttachments) ==
    LET texts == SelectSeq(attachments, LAMBDA a : a.kind = "text") IN
    IF Len(texts) > 0 /\ inlineAttachments = "all"
    THEN <<Part("h:Notes", <<>>, <<>>)>>
         \o Flatten([i \in 1..Len(texts) |-> NoteParts(texts[i])])
    ELSE <<>>

\* lines 238-263
InlineSections(attachments, inlineAttachments) ==
    IF Len(attachments) > 0 /\ inlineAttachments # "none"
    THEN ImagesSection(attachments, inlineAttachments)
         \o NotesSection(attachments, inlineAttachments)
    ELSE <<>>

\* lines 209-235 and 265: the shownotes of full mode
FullShownotes(configTitle, episode, episodeUrl, fileSizeBytes, attachments, inline) ==
    [plain |->
        <<Line("", episode.title), Line("Podcast", configTitle),
          Line("Published", formatDate(episode.pubDate)),
          Line("File", episode.fileName), Line("Size", formatBytes(Num(fileSizeBytes))),
          Line("Audio", episodeUrl)>>
        \o (IF Len(attachments) > 0
            THEN <<Line("Attachments",
                        [i \in 1..Len(attachments) |-> attachments[i].fileName])>>
            ELSE <<>>),
     html |->
        <<Part("strong", escapeHtml(episode.title), <<>>),
          Part("li:Podcast", escapeHtml(configTitle), <<>>),
          Part("li:Published", escapeHtml(formatDate(episode.pubDate)), <<>>),
          Part("li:File", escapeHtml(episode.fileName), <<>>),
          Part("li:Size", formatBytes(Num(fileSizeBytes)), <<>>),
          Part("li:Audio", escapeHtml(episodeUrl), escapeHtml(episodeUrl))>>
        \o (IF Len(attachments) > 0
            THEN <<Part("li:Attachments", <<>>, <<>>)>>
                 \o [i \in 1..Len(attachments) |->
                        Part("li:a", escapeHtml(attachments[i].url),
                             escapeHtml(attachments[i].fileName))]
            ELSE <<>>)
        \o InlineSections(attachments, inline),
     attachments |-> attachments,
     lookedUp |-> TRUE]

\* line 198: the shownotes of title mode
TitleShownotes(episode) ==
    [plain |-> <<Line("", episode.title)>>,
     html |-> <<Part("p", escapeHtml(episode.title), <<>>)>>,
     attachments |-> <<>>,
     lookedUp |-> FALSE]

\* buildEpisodeShownotes(params); the attachments and the lookedUp flag are
\* kept beside the two texts to tell what the call read
buildEpisodeShownotes(params, readOk) ==
    IF params.defaultMode = "title"
    THEN TitleShownotes(params.episode)
    ELSE FullShownotes(params.configTitle, params.episode, params.episodeUrl,
                       params.fileSizeBytes,
                       findSidecarAttachments(params.episode.fileName, params.baseUrl,
                                              params.dirName, readOk,
                                              params.inlineTextMaxChars),
                       params.inlineAttachments)

----------------------------------------------------------------------------
(* Feed assembler: generateFeed, one action per await *)

HttpScheme == <<"h", "t", "t", "p", ":", "/", "/">>
HttpsScheme == <<"h", "t", "t", "p", "s", ":", "/", "/">>
CoverJpg == <<"/", "c", "o", "v", "e", "r", ".", "j", "p", "g">>

\* the cover selection that does not look at source.coverUrl
feedImageLocalOnly(rawCover, coverPath, baseUrl, dirPath, defaultCover) ==
    IF coverPath # <<>>
    THEN baseUrl \o AudioPrefix \o encodeURIComponent(Basename(dirPath)) \o CoverJpg
    ELSE defaultCover

\* lines 279-282
feedImage(rawCover, coverPath, baseUrl, dirPath, defaultCover) ==
    IF rawCover # <<>>
    THEN IF StartsWith(rawCover, HttpScheme) \/ StartsWith(rawCover, HttpsScheme)
         THEN rawCover ELSE baseUrl \o rawCover
    ELSE IF coverPath # <<>>
         THEN baseUrl \o AudioPrefix \o encodeURIComponent(Basename(dirPath)) \o CoverJpg
         ELSE defaultCover

\* lines 289-357: the three places the cover goes to
NewFeed(image) ==
    [image |-> image, channelImageUrl |-> image, itunesImageHref |-> image,
     items |-> <<>>]

\* lines 274-276
inlineTextMaxChars(env) ==
    IF env.EPISODE_INLINE_TEXT_MAX_CHARS > 0
    THEN env.EPISODE_INLINE_TEXT_MAX_CHARS ELSE 8000

\* lines 374-409: the item of an episode
Item(episode, episodeUrl, fileSize, shownotes, shownotesMode) ==
    [title |-> episode.title,
     id |-> episodeUrl,
     link |-> episodeUrl,
     description |-> IF shownotesMode = "title"
                     THEN <<Line("", episode.title)>>
                     ELSE <<Line("", episode.title), Line("size", formatBytes(Num(fileSize)))>>,
     content |-> IF shownotes.html # <<>> THEN shownotes.html
                 ELSE <<Part("p", escapeHtml(episode.title), <<>>)>>,
     enclosure |-> [url |-> episodeUrl, type |-> getMediaType(episode.fileName),
                    length |-> fileSize],
     summary |-> shownotes.plain,
     attachments |-> shownotes.attachments]

\* items kept newest first
addItemFirst(items, item) == <<item>> \o items

\* feed.addItem
addItem(items, item) == Append(items, item)

GenLogEntry(op, idx, failed) == [op |-> op, idx |-> idx, failed |-> failed]

\* generateFeed with a call of its own to the cover resolver before the loop
GenStartResolving ==
    /\ genPc = "start"
    /\ feed' = NewFeed(feedImage(genIn.coverUrl, genIn.coverPath, BaseUrl, FeedDirPath,
                                 DefaultCover))
    /\ genIdx' = 1
    /\ genPc' = IF Len(genIn.episodes) = 0 THEN "render" ELSE "size"
    /\ genLog' = Append(genLog, GenLogEntry("cover", 0, {}))
    /\ UNCHANGED <<genIn, genSize, coverVars, fq, fb>>

\* lines 269-357, up to the first await of the loop: the cover is read from
\* source.coverUrl and source.coverPath, no call is made
GenStart ==
    /\ genPc = "start"
    /\ feed' = NewFeed(feedImage(genIn.coverUrl, genIn.coverPath, BaseUrl, FeedDirPath,
                                 DefaultCover))
    /\ genIdx' = 1
    /\ genPc' = IF Len(genIn.episodes) = 0 THEN "render" ELSE "size"
    /\ UNCHANGED <<genIn, genSize, genLog, coverVars, fq, fb>>

\* line 362
GenSize ==
    /\ genPc = "size"
    /\ \E statOk \in BOOLEAN :
         LET r == getFileSize(statOk, genIn.episodes[genIdx].fileName) IN
         /\ genLog' = Append(genLog,
                GenLogEntry("size", genIdx,
                            IF statOk THEN {} ELSE {genIn.episodes[genIdx].fileName}))
         /\ IF r.threw
            THEN genPc' = "failed" /\ UNCHANGED genSize
            ELSE genPc' = "notes" /\ genSize' = r.value
    /\ UNCHANGED <<genIn, genIdx, feed, coverVars, fq, fb>>

\* lines 363-410: the shownotes of the episode, then its item
GenNotes ==
    /\ genPc = "notes"
    /\ LET episode == genIn.episodes[genIdx]
           env == genIn.env
           texts == IF env.EPISODE_SHOWNOTES = "title" THEN {}
                    ELSE TextCandidates(episode.fileName)
           episodeUrl == AudioUrl(BaseUrl, FeedDirName, episode.fileName)
       IN  \E readOk \in [texts -> BOOLEAN] :
             LET shownotes ==
                     buildEpisodeShownotes(
                         [configTitle |-> TitleText, dirName |-> FeedDirName,
                          episode |-> episode, episodeUrl |-> episodeUrl,
                          fileSizeBytes |-> genSize, baseUrl |-> BaseUrl,
                          defaultMode |-> env.EPISODE_SHOWNOTES,
                          inlineAttachments |-> env.EPISODE_INLINE_ATTACHMENTS,
                          inlineTextMaxChars |-> inlineTextMaxChars(env)],
                         readOk)
                 threw == \E t \in texts :
                     readTextTruncated(readOk[t], FileOf(t), inlineTextMaxChars(env)).threw
             IN  /\ genLog' = genLog
                       \o (IF shownotes.lookedUp
                           THEN <<GenLogEntry("lookup", genIdx,
                                              {t \in texts : ~readOk[t]})>>
                           ELSE <<>>)
                       \o <<GenLogEntry("notes", genIdx, {})>>
                 /\ IF threw
                    THEN genPc' = "failed" /\ UNCHANGED <<feed, genIdx>>
                    ELSE /\ feed' = [feed EXCEPT !.items =
                                addItem(@, Item(episode, episodeUrl, genSize, shownotes,
                                                env.EPISODE_SHOWNOTES))]
                         /\ genIdx' = genIdx + 1
                         /\ genPc' = IF genIdx < Len(genIn.episodes) THEN "size" ELSE "render"
    /\ UNCHANGED <<genIn, genSize, coverVars, fq, fb>>

\* line 413
GenRender ==
    /\ genPc = "render"
    /\ genPc' = "done"
    /\ UNCHANGED <<genIn, genIdx, genSize, feed, genLog, coverVars, fq, fb>>

----------------------------------------------------------------------------
(* Freshness of a cached cover, on its own *)

MaxFreshTtl == 2    \* isFresh is tried with ttlDays in -1 .. MaxFreshTtl

\* ages around every multiple of a day up to one day past the largest TTL, and
\* mtimes in the future
FreshAges ==
    {k * DayMs + d : k \in 0..(MaxFreshTtl + 1), d \in {-1, 0, 1}} \cup {-DayMs}

\* Date.now() of the query, late enough for every age to be a time since 0
FreshNow == (MaxFreshTtl + 2) * DayMs

NoFq ==
    [ttlDays |-> 0, mtime |-> 0, now |-> 0, statOk |-> TRUE, asked |-> FALSE,
     out |-> FALSE]

\* isFresh is called on a file
AskFresh ==
    /\ ~fq.asked
    /\ fq' = [fq EXCEPT !.asked = TRUE,
                        !.out = isFresh(fq.statOk, fq.mtime, fq.now, fq.ttlDays)]
    /\ UNCHANGED <<coverVars, fb, genVars>>

----------------------------------------------------------------------------
(* Byte formatting, on its own *)

\* the sizes formatBytes is tried with: NaN, the infinities, a negative size,
\* zero, and positive integers of one digit up to one digit more than there
\* are units, with leading digits on both sides of 10 and second digits that
\* round down, to a half and up
ByteInputs ==
    {[cls |-> c, neg |-> FALSE, digits |-> <<>>] : c \in {"nan", "inf", "finite"}}
    \cup {[cls |-> "inf", neg |-> TRUE, digits |-> <<>>],
          [cls |-> "finite", neg |-> TRUE, digits |-> <<1>>]}
    \cup {[cls |-> "finite", neg |-> FALSE, digits |-> ds] :
            ds \in UNION {
                {[k \in 1..n |-> IF k = n THEN top
                                 ELSE IF k = n - 1 THEN second ELSE rest] :
                    top \in IF n > Len(Units) THEN {1, 7} ELSE {1, 9, 10, 1023},
                    second \in {0, 512, 1019, 1023},
                    rest \in {0, 1023}} : n \in 1..(Len(Units) + 1)}}

NoOut == [digits |-> 0, fixed |-> 0, unit |-> ""]

NoFb == [bytes |-> Num(0), asked |-> FALSE, out |-> NoOut]

\* formatBytes is called on a size
AskBytes ==
    /\ ~fb.asked
    /\ fb' = [fb EXCEPT !.asked = TRUE, !.out = formatBytes(fb.bytes)]
    /\ UNCHANGED <<coverVars, fq, genVars>>

----------------------------------------------------------------------------
(* Specifications *)

\* a cache file found at start-up: absent, written at time 0, or stamped with
\* the last instant of the clock (in the future until the clock gets there)
FileStates == [exists : {TRUE}, mtime : {0, MaxDays * DayMs}] \cup {NoFile}

NoGenIn ==
    [env |-> [EPISODE_SHOWNOTES |-> "title", EPISODE_INLINE_ATTACHMENTS |-> "none",
              EPISODE_INLINE_TEXT_MAX_CHARS |-> 0],
     coverUrl |-> <<>>, coverPath |-> <<>>, episodes |-> <<>>]

CoverIdle ==
    /\ now = 0
    /\ files = [e \in ExtSet |-> NoFile]
    /\ dirName = FeedDirName
    /\ pc = [p \in Procs |-> "idle"]
    /\ loc = [p \in Procs |-> NoLoc]
    /\ result = [p \in Procs |-> Empty]
    /\ hist = [p \in Procs |-> NoHist]

GenIdle ==
    /\ genIn = NoGenIn
    /\ genPc = "off"
    /\ genIdx = 0
    /\ genSize = 0
    /\ feed = NewFeed(<<>>)
    /\ genLog = <<>>

\* the cover resolver, one call at a time
Init ==
    /\ now = 0
    /\ files \in [ExtSet -> FileStates]
    /\ dirName \in DirNames
    /\ pc = [p \in Procs |-> "idle"]
    /\ loc = [p \in Procs |-> NoLoc]
    /\ result = [p \in Procs |-> Empty]
    /\ hist = [p \in Procs |-> NoHist]
    /\ fq = NoFq
    /\ fb = NoFb
    /\ GenIdle

Next ==
    \/ \E p \in SeqProcs, env \in Envs, config \in Sources : Call(p, env, config)
    \/ \E p \in SeqProcs : Probe(p)
    \/ \E p \in SeqProcs : Search(p)
    \/ \E p \in SeqProcs : Fetch(p)
    \/ \E p \in SeqProcs : Write(p)
    \/ \E p \in SeqProcs : Cleanup(p)
    \/ \E p \in SeqProcs : Return(p)
    \/ Tick

Spec == Init /\ [][Next]_vars

\* isFresh over its inputs
FreshInit ==
    /\ fq \in [ttlDays : -1..MaxFreshTtl, mtime : {FreshNow - a : a \in FreshAges},
               now : {FreshNow}, statOk : BOOLEAN, asked : {FALSE}, out : {FALSE}]
    /\ fb = NoFb
    /\ CoverIdle
    /\ GenIdle

FreshNext == AskFresh

FreshSpec == FreshInit /\ [][FreshNext]_vars

\* one generateFeed call over its inputs
GenInit ==
    /\ genIn \in GenInputs
    /\ genPc = "start"
    /\ genIdx = 0
    /\ genSize = 0
    /\ feed = NewFeed(<<>>)
    /\ genLog = <<>>
    /\ CoverIdle
    /\ fq = NoFq
    /\ fb = NoFb

GenNext ==
    \/ GenStart
    \/ GenSize
    \/ GenNotes
    \/ GenRender

GenSpec == GenInit /\ [][GenNext]_vars

\* the first call gave nothing to reuse: the caller calls again
Retry ==
    /\ ~(result[1].has /\ hist[1].writes # <<>>)
    /\ Return(1)

\* the next call for the same source under the same environment, after a call
\* that downloaded its cover
LaterCall ==
    /\ pc[1] = "done" /\ result[1].has /\ hist[1].writes # <<>>
    /\ Call(2, loc[1].env, loc[1].config)

\* the environments under which a cover can be downloaded
ReuseEnvs == {env \in Envs : ~Disabled(env)}

\* sources with an explicit URL and sources that are searched for
ReuseSources ==
    {Config(UrlPng, TermText, TitleText), Config(UrlPlain, Blank, <<>>),
     Config(<<>>, TermText, TitleText), Config(<<>>, <<>>, <<>>)}

\* two consecutive calls for one source over an empty cache: call 1 until it
\* has downloaded a cover, then call 2 at any later time
ReuseInit ==
    /\ CoverIdle
    /\ fq = NoFq
    /\ fb = NoFb
    /\ GenIdle

ReuseNext ==
    \/ \E env \in ReuseEnvs, config \in ReuseSources : Call(1, env, config)
    \/ \E p \in Procs : Probe(p)
    \/ \E p \in Procs : Search(p)
    \/ \E p \in Procs : Fetch(p)
    \/ \E p \in Procs : Write(p)
    \/ \E p \in Procs : Cleanup(p)
    \/ Retry
    \/ LaterCall
    \/ Tick

ReuseSpec == ReuseInit /\ [][ReuseNext]_vars

\* the environment of the concurrent calls: resolution enabled, the longest TTL
ConcEnvs ==
    {env \in Envs : ~Disabled(env) /\ env.REMOTE_COVER_TTL_DAYS = MaxTtlDays}

\* the one source the concurrent calls resolve: no explicit URL, searched for
ConcSources == {Config(<<>>, TermText, TitleText)}

\* two calls for one source that overlap freely, over a cache that starts empty
ConcInit == ReuseInit

ConcNext ==
    \/ \E p \in Procs, env \in ConcEnvs, config \in ConcSources : Call(p, env, config)
    \/ \E p \in Procs : Probe(p)
    \/ \E p \in Procs : Search(p)
    \/ \E p \in Procs : Fetch(p)
    \/ \E p \in Procs : Write(p)
    \/ \E p \in Procs : Cleanup(p)
    \/ Tick

ConcSpec == ConcInit /\ [][ConcNext]_vars

\* formatBytes over its inputs
BytesInit ==
    /\ fb \in [bytes : ByteInputs, asked : {FALSE}, out : {NoOut}]
    /\ fq = NoFq
    /\ CoverIdle
    /\ GenIdle

BytesNext == AskBytes

BytesSpec == BytesInit /\ [][BytesNext]_vars

----------------------------------------------------------------------------
(* Properties of the cover resolver *)

ExistingExts == {e \in ExtSet : files[e].exists}

\* the route and the cache path of extension e for the folder "a b"
ExpectedRoute(e) == <<"/", "c", "o", "v", "e", "r", "s", "/", "a", "%", "2", "0", "b">> \o e
ExpectedPath(e) == <<".", "c", "o", "v", "e", "r", "s", "/", "a", " ", "b">> \o e

\* C1: resolveCoverForSource never raises, and a call in which the search
\* request, the download request or the write of the cache file failed resolves
\* to the empty result.
C1_NeverRaises ==
    \A p \in Procs :
        /\ pc[p] # "raised"
        /\ (pc[p] = "done" /\ hist[p].failure \in {"search", "fetch", "write"})
              => (~result[p].has /\ result[p].coverUrl = <<>>
                  /\ result[p].coverCachePath = <<>>)

C1_Witness ==
    \E p \in Procs :
        /\ pc[p] = "done" /\ hist[p].failure = "write" /\ ~result[p].has
        /\ hist[p].searches # <<>> /\ hist[p].writes # <<>>

C4_DisabledShortCircuit ==
    \A p \in Procs :
        (pc[p] # "idle"
            /\ (~loc[p].env.REMOTE_COVER_ENABLED
                \/ loc[p].env.REMOTE_COVER_PROVIDER = "none"))
        => /\ pc[p] = "done"
           /\ result[p] = Empty
           /\ hist[p].probes = <<>> /\ hist[p].stats = <<>>
           /\ hist[p].searches = <<>> /\ hist[p].downloads = <<>>
           /\ hist[p].writes = <<>> /\ hist[p].removes = <<>>
           /\ files = hist[p].files0

\* a disabled call has returned empty although a fresh .jpg is cached
C4_Witness ==
    \E p \in Procs :
        /\ pc[p] = "done"
        /\ loc[p].env.REMOTE_COVER_ENABLED /\ loc[p].env.REMOTE_COVER_PROVIDER = "none"
        /\ loc[p].env.REMOTE_COVER_TTL_DAYS = 1
        /\ files[ExtJpg].exists /\ files[ExtJpg].mtime = 0 /\ now = 86400000 - 1
        /\ result[p] = Empty

C5_ProbeStep(p) ==
    LET order == <<ExtJpg, ExtPng, ExtWebp>>
        n == Len(hist[p].probes)
    IN  /\ (pc[p] \in {"search", "fetch", "write", "cleanup"}) => n = 3
        /\ (pc[p] = "probe" /\ hist'[p] # hist[p]) =>
             LET e == order[n + 1]
                 age == now - files[e].mtime
                 hit == /\ files[e].exists
                        /\ age >= 0
                        /\ age < loc[p].env.REMOTE_COVER_TTL_DAYS * 86400000
                        /\ hist'[p].statLost = hist[p].statLost
             IN  /\ hist'[p].probes = Append(hist[p].probes, e)
                 /\ hist'[p].searches = <<>> /\ hist'[p].downloads = <<>>
                 /\ hist'[p].writes = <<>> /\ hist'[p].removes = <<>>
                 /\ hit => /\ pc'[p] = "done"
                           /\ result'[p] = [has |-> TRUE, coverUrl |-> ExpectedRoute(e),
                                           coverCachePath |-> ExpectedPath(e)]
                 /\ ~hit => /\ ~result'[p].has
                            /\ (pc'[p] = "probe") = (n + 1 < 3)

\* C5: the cache is probed in the order .jpg, .png, .webp; the first extension
\* whose file exists and is fresh ends the call with the route
\* /covers/<urlencoded dirName+ext> and the path of that file, no later
\* extension is probed and no request is issued; the artwork source is reached
\* only after all three extensions gave no fresh hit.
C5_FirstFreshHit == [][\A p \in Procs : C5_ProbeStep(p)]_vars

\* the call has returned the cached .png after the .jpg gave no hit
C5_Witness ==
    \E p \in Procs :
        /\ pc[p] = "done" /\ result[p].has
        /\ hist[p].probes = <<ExtJpg, ExtPng>>
        /\ result[p].coverUrl = ExpectedRoute(ExtPng)
        /\ files[ExtJpg].exists /\ files[ExtWebp].exists
        /\ hist[p].downloads = <<>>

\* C6: a source whose coverImageUrl is not empty after trimming is never
\* searched for, and the trimmed URL is the one downloaded.
C6_ExplicitUrlNoSearch ==
    \A p \in Procs :
        LET url == loc[p].config.coverImageUrl IN
        (pc[p] # "idle" /\ \E i \in 1..Len(url) : url[i] # " ")
        => /\ pc[p] # "search"
           /\ hist[p].searches = <<>>
           /\ \A i \in 1..Len(hist[p].downloads) :
                 /\ hist[p].downloads[i] # <<>>
                 /\ Head(hist[p].downloads[i]) # " "
                 /\ hist[p].downloads[i][Len(hist[p].downloads[i])] # " "
                 /\ \E a, b \in 0..Len(url) :
                       /\ a + b + Len(hist[p].downloads[i]) = Len(url)
                       /\ \A k \in 1..a : url[k] = " "
                       /\ \A k \in (Len(url) - b + 1)..Len(url) : url[k] = " "
                       /\ SubSeq(url, a + 1, Len(url) - b) = hist[p].downloads[i]

\* a padded explicit URL has been downloaded although a search term is set
C6_Witness ==
    \E p \in Procs :
        /\ pc[p] = "done"
        /\ loc[p].config.coverImageUrl = UrlPng
        /\ loc[p].config.coverSearchTerm # <<>>
        /\ hist[p].downloads = <<SubSeq(UrlPng, 2, Len(UrlPng) - 1)>>
        /\ result[p].has

----------------------------------------------------------------------------
(* Properties of isFresh *)

\* C3: a cached cover is fresh iff its stat succeeds and its age a = now - mtime
\* satisfies 0 <= a < T * 86400000; an age at or above the bound, a negative
\* age and a failing stat are all not fresh.
C3_FreshIff ==
    fq.asked =>
        (fq.out <=> (/\ fq.statOk
                     /\ 0 <= fq.now - fq.mtime
                     /\ fq.now - fq.mtime < fq.ttlDays * 86400000))

\* the last fresh millisecond of a two-day TTL has been answered
C3_Witness ==
    /\ fq.asked /\ fq.out /\ fq.statOk /\ fq.ttlDays = 2
    /\ fq.now - fq.mtime = 2 * 86400000 - 1

----------------------------------------------------------------------------
(* Properties of generateFeed *)

\* the log entries of the given kind for the episode at position i
LogOf(op, i) == {k \in 1..Len(genLog) : genLog[k].op = op /\ genLog[k].idx = i}

HasPart(item, tag) == \E k \in 1..Len(item.content) : item.content[k].tag = tag

\* the sidecar of an audio file with the given extension is on the disk
HasSidecar(fileName, ext) ==
    \E f \in Disk :
        \E d \in 1..Len(fileName) :
            /\ fileName[d] = "."
            /\ \A k \in (d + 1)..Len(fileName) : fileName[k] # "."
            /\ f.name = SubSeq(fileName, 1, d) \o ext

HasImageSidecar(fileName) ==
    \E ext \in {<<"j", "p", "g">>, <<"j", "p", "e", "g">>, <<"p", "n", "g">>,
                <<"w", "e", "b", "p">>} : HasSidecar(fileName, ext)

HasTextSidecar(fileName) ==
    \E ext \in {<<"t", "x", "t">>, <<"m", "d">>} : HasSidecar(fileName, ext)

\* C7: generateFeed does not fail on local I/O failures: it ends with one item
\* per episode; an episode whose stat failed has enclosure length 0, and a text
\* sidecar whose read failed is still listed as an attachment, with empty
\* inline text.
C7_DegradesNotFails ==
    /\ genPc # "failed"
    /\ genPc = "done" =>
         /\ Len(feed.items) = Len(genIn.episodes)
         /\ \A k \in 1..Len(genLog) :
              LET i == genLog[k].idx IN
              /\ (genLog[k].op = "size" /\ genLog[k].failed # {})
                    => feed.items[i].enclosure.length = 0
              /\ genLog[k].op = "lookup" =>
                    \A f \in genLog[k].failed :
                        \E a \in 1..Len(feed.items[i].attachments) :
                            /\ feed.items[i].attachments[a].fileName = f
                            /\ feed.items[i].attachments[a].kind = "text"
                            /\ feed.items[i].attachments[a].inlineText = <<>>

\* a feed of two items is done after a failed stat and a failed sidecar read
C7_Witness ==
    /\ genPc = "done" /\ Len(feed.items) = 2
    /\ \E k \in 1..Len(genLog) : genLog[k].op = "size" /\ genLog[k].failed # {}
    /\ \E k \in 1..Len(genLog) : genLog[k].op = "lookup" /\ genLog[k].failed # {}
    /\ \E i \in 1..2 : feed.items[i].attachments = <<>>

\* C8: episodes are processed one after the other in input order: the size
\* lookup of episode i, then its shownotes, then the size lookup of episode
\* i + 1; the items of the feed are the episodes in input order.
C8_SequentialInOrder ==
    LET steps == SelectSeq(genLog, LAMBDA e : e.op \in {"size", "notes"}) IN
    /\ \A k \in 1..Len(steps) :
          /\ steps[k].idx = (k + 1) \div 2
          /\ steps[k].op = IF k % 2 = 1 THEN "size" ELSE "notes"
    /\ Len(feed.items) = Len(steps) \div 2
    /\ Len(feed.items) <= Len(genIn.episodes)
    /\ \A i \in 1..Len(feed.items) :
          /\ feed.items[i].title = genIn.episodes[i].title
          /\ feed.items[i].enclosure.type = getMediaType(genIn.episodes[i].fileName)
    /\ genPc = "done" => Len(feed.items) = Len(genIn.episodes)

\* a feed of two different episodes is done
C8_Witness ==
    /\ genPc = "done" /\ Len(feed.items) = 2
    /\ genIn.episodes[1] # genIn.episodes[2]
    /\ feed.items[1].title = <<"F">> /\ feed.items[2].title = <<"A", "&", "B">>

\* C9: in full mode, 'none' emits neither an Images nor a Notes section, 'images'
\* emits Images iff an image sidecar exists and never Notes, 'all' emits Images
\* iff an image sidecar exists and Notes iff a text sidecar exists; in title mode
\* no attachment lookup is made and no section is emitted.
C9_SectionsBySetting ==
    LET mode == genIn.env.EPISODE_SHOWNOTES
        inline == genIn.env.EPISODE_INLINE_ATTACHMENTS
    IN  /\ mode = "title" => \A k \in 1..Len(genLog) : genLog[k].op # "lookup"
        /\ \A i \in 1..Len(feed.items) :
              LET item == feed.items[i]
                  name == genIn.episodes[i].fileName
              IN  /\ HasPart(item, "h:Images") <=>
                        (mode = "full" /\ inline \in {"images", "all"}
                         /\ HasImageSidecar(name))
                  /\ HasPart(item, "h:Notes") <=>
                        (mode = "full" /\ inline = "all" /\ HasTextSidecar(name))
                  /\ mode = "full" => LogOf("lookup", i) # {}

\* under 'images' an episode with an image and a text sidecar got an Images
\* section and no Notes section
C9_Witness ==
    /\ genIn.env.EPISODE_SHOWNOTES = "full"
    /\ genIn.env.EPISODE_INLINE_ATTACHMENTS = "images"
    /\ Len(feed.items) >= 1
    /\ HasImageSidecar(genIn.episodes[1].fileName)
    /\ HasTextSidecar(genIn.episodes[1].fileName)
    /\ HasPart(feed.items[1], "h:Images") /\ ~HasPart(feed.items[1], "h:Notes")

\* the cover generateFeed is to select
ExpectedImage ==
    LET c == genIn.coverUrl IN
    IF c # <<>>
    THEN IF \/ (Len(c) >= 7 /\ SubSeq(c, 1, 7) = <<"h", "t", "t", "p", ":", "/", "/">>)
            \/ (Len(c) >= 8 /\ SubSeq(c, 1, 8) = <<"h", "t", "t", "p", "s", ":", "/", "/">>)
         THEN c
         ELSE BaseUrl \o c
    ELSE IF genIn.coverPath # <<>>
         THEN BaseUrl \o <<"/", "a", "u", "d", "i", "o", "/", "a", "%", "2", "0", "b",
                           "/", "c", "o", "v", "e", "r", ".", "j", "p", "g">>
         ELSE DefaultCover

----------------------------------------------------------------------------
(* Properties of the cleanup and of the search term *)

\* C11: cleanup after a successful write is best-effort per extension: a call
\* whose cache file was written ends with the route and the path of that file
\* even when a delete of another extension failed, and the loop over the other
\* extensions went on to the last of them.
C11_BestEffortCleanup ==
    \A p \in Procs :
        (pc[p] = "done" /\ hist[p].writes # <<>> /\ hist[p].failure # "write")
        => /\ result[p] = [has |-> TRUE, coverUrl |-> ExpectedRoute(loc[p].ext),
                           coverCachePath |-> ExpectedPath(loc[p].ext)]
           /\ loc[p].extIdx = 2

NonBlank(s) == \E i \in 1..Len(s) : s[i] # " "

\* the first of coverSearchTerm, title, dirName that is not blank, trimmed
FirstNonBlank(config) ==
    IF NonBlank(config.coverSearchTerm) THEN Trim(config.coverSearchTerm)
    ELSE IF NonBlank(config.title) THEN Trim(config.title)
    ELSE Trim(dirName)

\* the call went past the cache without a hit
CacheMissed(p) ==
    /\ Len(hist[p].probes) = 3
    /\ pc[p] \in {"search", "fetch", "write", "cleanup", "done"}
    /\ ~(pc[p] = "done" /\ result[p].has /\ hist[p].downloads = <<>>)

\* C12: without an explicit cover URL the search term is the first of
\* coverSearchTerm, title, dirName that is non-empty after trimming, and a
\* search request with that term is issued whenever one of the three is
\* non-empty after trimming.
C12_FirstNonBlankTerm ==
    \A p \in Procs :
        (CacheMissed(p) /\ ~NonBlank(loc[p].config.coverImageUrl)
            /\ (NonBlank(loc[p].config.coverSearchTerm)
                \/ NonBlank(loc[p].config.title) \/ NonBlank(dirName)))
        => IF pc[p] = "search"
           THEN loc[p].term = FirstNonBlank(loc[p].config)
           ELSE hist[p].searches = <<FirstNonBlank(loc[p].config)>>

----------------------------------------------------------------------------
(* Properties of the calls generateFeed makes *)

\* the calls of the given kind generateFeed has made so far
Calls(op) == {k \in 1..Len(genLog) : genLog[k].op = op}

\* the shownotes builder has been called once for each episode before genIdx,
\* and the sidecar locator once for each of them in full mode only
OncePerEpisode ==
    \A i \in 1..Len(genIn.episodes) :
        /\ Cardinality(LogOf("notes", i)) = IF i < genIdx THEN 1 ELSE 0
        /\ Cardinality(LogOf("lookup", i)) =
              IF i < genIdx /\ genIn.env.EPISODE_SHOWNOTES = "full" THEN 1 ELSE 0
        /\ \A k \in LogOf("lookup", i) : k + 1 \in LogOf("notes", i)

\* C13 as claimed: generateFeed calls the cover resolver exactly once, before
\* any episode is processed, and then the shownotes builder once per episode.
C13_Original ==
    /\ genPc \in {"size", "notes", "render", "done"} =>
          /\ Cardinality(Calls("cover")) = 1
          /\ genLog[1].op = "cover"
    /\ OncePerEpisode

\* C13 amended: generateFeed makes no call to the cover resolver, it takes the
\* cover from the already resolved source.coverUrl and source.coverPath before
\* any episode is processed; the shownotes builder is then called exactly once
\* per episode, and the builder calls the sidecar locator in full mode only.
C13_NoResolverCallOncePerEpisode ==
    /\ Calls("cover") = {}
    /\ \A p \in Procs : pc[p] = "idle" /\ hist[p] = NoHist
    /\ ExistingExts = {}
    /\ genPc = "start" => genLog = <<>>
    /\ genPc \in {"size", "notes", "render", "done"} =>
          feed.image = feedImage(genIn.coverUrl, genIn.coverPath, BaseUrl, FeedDirPath,
                                 DefaultCover)
    /\ OncePerEpisode
    /\ genPc = "done" => genIdx = Len(genIn.episodes) + 1

\* a feed of two episodes is done in full mode, its cover taken from the source
C13_Witness ==
    /\ genPc = "done" /\ Len(genIn.episodes) = 2
    /\ genIn.env.EPISODE_SHOWNOTES = "full"
    /\ feed.image = DefaultCover /\ Len(feed.items) = 2
    /\ Cardinality(Calls("notes")) = 2 /\ Cardinality(Calls("lookup")) = 2
    /\ Calls("cover") = {}

----------------------------------------------------------------------------
(* Properties of formatBytes *)

\* the size as the code sees it: not a positive finite number, or the number
\* of its base-1024 digits and the integer part of the scaled value
FbZero == fb.bytes.cls # "finite" \/ fb.bytes.neg \/ fb.bytes.digits = <<>>
FbLen == Len(fb.bytes.digits)
FbUnit == IF FbLen < 5 THEN FbLen ELSE 5
FbWhole ==
    IF FbLen <= 5 THEN fb.bytes.digits[FbLen]
    ELSE fb.bytes.digits[5] + 1024 * fb.bytes.digits[6]

\* unit and "0 B" as C15 states them, with the given precision
FbAnswer(fixed) ==
    fb.asked =>
        IF FbZero THEN fb.out = [digits |-> 0, fixed |-> 0, unit |-> "B"]
        ELSE /\ fb.out.unit = <<"B", "KB", "MB", "GB", "TB">>[FbUnit]
             /\ fb.out.fixed = fixed
             /\ FbLen = 1 => fb.out.digits = fb.bytes.digits[1]

\* C15 as claimed: 0 decimal places at the B scale, 1 decimal place when the
\* scaled value is below 10, 2 decimal places otherwise.
C15_Original ==
    FbAnswer(IF FbLen = 1 THEN 0 ELSE IF FbWhole < 10 THEN 1 ELSE 2)

\* C15 amended: non-finite or non-positive input gives "0 B"; otherwise the
\* value is divided by 1024 while it is >= 1024 and a larger unit remains
\* (values of 1024^5 or more stay in TB); the result is printed with 0 decimal
\* places at the B scale, with 2 decimal places when the scaled value is below
\* 10, and with 1 decimal place otherwise; 1024 is "1.00 KB", 1536 "1.50 KB",
\* 10240 "10.0 KB".
C15_UnitAndPrecision ==
    /\ FbAnswer(IF FbLen = 1 THEN 0 ELSE IF FbWhole < 10 THEN 2 ELSE 1)
    /\ (fb.asked /\ ~FbZero /\ fb.bytes.digits = <<0, 1>>)
          => fb.out = [digits |-> 100, fixed |-> 2, unit |-> "KB"]
    /\ (fb.asked /\ ~FbZero /\ fb.bytes.digits = <<512, 1>>)
          => fb.out = [digits |-> 150, fixed |-> 2, unit |-> "KB"]
    /\ (fb.asked /\ ~FbZero /\ fb.bytes.digits = <<0, 10>>)
          => fb.out = [digits |-> 100, fixed |-> 1, unit |-> "KB"]

\* 1024^5 bytes have been printed as "1024.0 TB"
C15_Witness ==
    /\ fb.asked /\ fb.bytes.cls = "finite" /\ ~fb.bytes.neg
    /\ fb.bytes.digits = <<0, 0, 0, 0, 0, 1>>
    /\ fb.out = [digits |-> 10240, fixed |-> 1, unit |-> "TB"]

----------------------------------------------------------------------------
(* Properties of two consecutive calls *)

\* call 2 has ended inside the freshness window of the cover call 1
\* downloaded, with resolution enabled and the TTL of call 1
InWindow ==
    LET T == loc[1].env.REMOTE_COVER_TTL_DAYS
        t == hist[2].files0[loc[1].ext].mtime
    IN  /\ pc[1] = "done" /\ result[1].has /\ hist[1].writes # <<>>
        /\ pc[2] = "done"
        /\ loc[2].env.REMOTE_COVER_ENABLED /\ loc[2].env.REMOTE_COVER_PROVIDER # "none"
        /\ loc[2].env.REMOTE_COVER_TTL_DAYS = T /\ T > 0
        /\ 0 <= now - t /\ now - t < T * 86400000

\* call 2 returned what call 1 returned and did nothing but probe the cache
Reused ==
    /\ result[2] = result[1]
    /\ result[2].coverUrl = ExpectedRoute(loc[1].ext)
    /\ hist[2].searches = <<>> /\ hist[2].downloads = <<>>
    /\ hist[2].writes = <<>> /\ hist[2].removes = <<>>
    /\ files = hist[2].files0

\* a cache hit of call 2 happens at an age below the TTL of call 2
HitOnlyWhenFresh ==
    (pc[2] = "probe" /\ pc'[2] = "done" /\ result'[2].has) =>
        LET f == files[CoverExts[loc[2].extIdx]] IN
        /\ f.exists /\ 0 <= now - f.mtime
        /\ now - f.mtime < loc[2].env.REMOTE_COVER_TTL_DAYS * 86400000

----------------------------------------------------------------------------
(* Properties of the cache under overlapping calls *)

\* the cached files a reader under the TTL in force takes for fresh
LiveExts ==
    {e \in ExtSet : /\ files[e].exists
                    /\ 0 <= now - files[e].mtime
                    /\ now - files[e].mtime < MaxTtlDays * 86400000}

\* C14: in every reachable state of the cover cache, between the write and the
\* cleanup of a resolution and under two overlapping calls for one source
\* included, at most one cached file of the source is live (existing and
\* fresh), and whenever no call is in flight at most one cached file exists at
\* all, so stale files of other extensions do not pile up.
C14_AtMostOneLiveFile ==
    /\ Cardinality(LiveExts) <= 1
    /\ (\A p \in Procs : pc[p] \in {"idle", "done"}) => Cardinality(ExistingExts) <= 1

====
